---------------------------- MODULE Spec2Model ----------------------------
(***************************************************************************)
(* A model of Webinate/users' BucketManager (src/src/lib/BucketManager.ts): *)
(* the three mongodb collections (buckets, files, stats), the remote       *)
(* Google storage, and the asynchronous operations of the manager.  Every  *)
(* action below is one callback of the source: the completion of one       *)
(* store/remote call together with the code that runs in its callback up   *)
(* to the next call it issues.  Requests are served by processes Procs,    *)
(* whose callbacks interleave as node's event loop interleaves them.       *)
(***************************************************************************)
EXTENDS Integers, FiniteSets, Sequences, TLC

(***************************************************************************)
(* Bounds of the model.                                                    *)
(***************************************************************************)
\* largest byte count of an uploaded part
MaxBytes == 2
\* buckets created in one behaviour (generated bucket identifiers)
MaxBuckets == 2
\* files uploaded in one behaviour (generated file identifiers)
MaxFiles == 2
\* files uploaded in one behaviour with two users and two bucket names
MaxFilesOwners == 1
\* store, remote or stream failures in one behaviour
MaxFaults == 1
\* tokens of an accept-encoding header
MaxTokens == 2
\* renameFile is called while the user has made fewer API calls than this
MaxApiCalls == 4
\* createUserStats is called while the usage documents have smaller ids
MaxStats == 3
\* BucketManager.MEMORY_ALLOCATED (5e+8 in the source), scaled down
MEMORY_ALLOCATED == 4
\* BucketManager.API_CALLS_ALLOCATED (20000 in the source), scaled down
API_CALLS_ALLOCATED == 4

Procs == {1, 2}
Users == {"u1", "u2"}
Sizes == 1..MaxBytes
\* generateRandString: the n-th generated identifier.  The strings are random
\* and collide with negligible probability, so the n-th one is fresh.
BucketIdentifier(n) == n
\* Bucket names are user-supplied strings: one ordinary name, and one that is
\* spelled like the first generated bucket identifier.
Names == {0, BucketIdentifier(1)}
\* accept-encoding headers: sequences of at most MaxTokens tokens
Tokens == {"gzip", "deflate", "br"}
AcceptEncodings == UNION {[1..n -> Tokens] : n \in 0..MaxTokens}
Null == [null |-> TRUE]
\* an optional user argument that is not given
NoUser == ""
\* the value of Promise.resolve() called without an argument
Undefined == [undefined |-> TRUE]

(***************************************************************************)
(* The configurations explored.  Each fixes the processes that serve       *)
(* requests, the number of failures, the inputs the callers draw from, the *)
(* users that have a usage document, whether files are renamed and        *)
(* published, and whether accounts are created and removed.                *)
(***************************************************************************)
\* owners and bucket names: one process, no failure, all users and names
CfgOwners ==
    [procs |-> {1}, faults |-> 0, users |-> Users, names |-> Names,
     buckets |-> MaxBuckets, files |-> MaxFilesOwners, sizes |-> Sizes,
     shortfall |-> FALSE, publish |-> {FALSE}, compressible |-> {FALSE},
     accepts |-> {<<>>},
     registered |-> Users, metadata |-> FALSE, accounts |-> FALSE]
\* transfers: every content type, visibility and accept-encoding header, and
\* parts whose byte count is not the number of bytes that flow
CfgTransfers ==
    [procs |-> {1}, faults |-> 0, users |-> {"u1"}, names |-> {0},
     buckets |-> MaxBuckets, files |-> MaxFiles, sizes |-> Sizes,
     shortfall |-> TRUE, publish |-> BOOLEAN, compressible |-> BOOLEAN,
     accepts |-> AcceptEncodings,
     registered |-> Users, metadata |-> FALSE, accounts |-> FALSE]
\* failures: store, remote and stream calls may fail
CfgFailures ==
    [procs |-> {1}, faults |-> MaxFaults, users |-> {"u1"}, names |-> {0},
     buckets |-> MaxBuckets, files |-> MaxFiles, sizes |-> Sizes,
     shortfall |-> FALSE, publish |-> BOOLEAN, compressible |-> {FALSE},
     accepts |-> {<<>>},
     registered |-> Users, metadata |-> FALSE, accounts |-> FALSE]
\* interleavings: two requests in flight, on buckets
CfgInterleavedBuckets ==
    [procs |-> Procs, faults |-> 0, users |-> {"u1"}, names |-> {0},
     buckets |-> MaxBuckets, files |-> MaxFilesOwners, sizes |-> {MaxBytes},
     shortfall |-> FALSE, publish |-> {FALSE}, compressible |-> {FALSE},
     accepts |-> {<<>>},
     registered |-> Users, metadata |-> FALSE, accounts |-> FALSE]
\* interleavings: two requests in flight, on the files of one bucket
CfgInterleavedFiles ==
    [procs |-> Procs, faults |-> 0, users |-> {"u1"}, names |-> {0},
     buckets |-> 1, files |-> MaxFiles, sizes |-> {MaxBytes},
     shortfall |-> FALSE, publish |-> {FALSE}, compressible |-> {FALSE},
     accepts |-> {<<>>},
     registered |-> Users, metadata |-> FALSE, accounts |-> FALSE]
\* metadata: renaming and publishing the file of one bucket, calls may fail,
\* and one user has no usage document
CfgMetadata ==
    [procs |-> {1}, faults |-> MaxFaults, users |-> Users, names |-> {0},
     buckets |-> 1, files |-> 1, sizes |-> {1},
     shortfall |-> FALSE, publish |-> BOOLEAN, compressible |-> {FALSE},
     accepts |-> {<<>>},
     registered |-> {"u1"}, metadata |-> TRUE, accounts |-> FALSE]
\* accounts: usage documents are created and removed and users removed,
\* calls may fail
CfgAccounts ==
    [procs |-> {1}, faults |-> MaxFaults, users |-> {"u1"}, names |-> {0},
     buckets |-> 1, files |-> 1, sizes |-> {1},
     shortfall |-> FALSE, publish |-> {FALSE}, compressible |-> {FALSE},
     accepts |-> {<<>>},
     registered |-> {"u1"}, metadata |-> FALSE, accounts |-> TRUE]
Configs ==
    {CfgOwners, CfgTransfers, CfgFailures, CfgInterleavedBuckets,
     CfgInterleavedFiles, CfgMetadata, CfgAccounts}

VARIABLES
    stats,      \* the stats collection: a set of IStorageStats documents
    buckets,    \* the buckets collection: a set of IBucketEntry documents
    files,      \* the files collection: a set of IFileEntry documents
    gcs,        \* the remote storage: its buckets and their objects
    ops,        \* per process: the operation it runs and where it is
    nextBucket, \* number of bucket identifiers generated so far
    nextFile,   \* number of file identifiers generated so far
    failures,   \* number of store, remote and stream failures so far
    deleted,    \* history: the (user, name) of the buckets deleteBucket removed
    spent,      \* the transform streams of the manager that have ended
    cfg         \* the configuration explored

vars == <<stats, buckets, files, gcs, ops, nextBucket, nextFile, failures,
          deleted, spent, cfg>>
stores == <<stats, buckets, files, gcs>>
ids == <<nextBucket, nextFile, deleted>>

(***************************************************************************)
(* mongodb and storage helpers                                             *)
(***************************************************************************)
\* natural order: the document inserted first
First(S) == CHOOSE d \in S : \A e \in S : d._id <= e._id
\* collection.findOne
FindOne(hit) == IF hit = {} THEN Null ELSE First(hit)
\* the outcomes of a store or remote call: TRUE it succeeds, FALSE it fails
CanFail == failures < cfg.faults
Outcomes == IF CanFail THEN {TRUE, FALSE} ELSE {TRUE}
Fail(ok) == failures' = IF ok THEN failures ELSE failures + 1

\* stats.update({user: user}, {$inc: {memoryUsed: dm, apiCallsUsed: dc}})
StatsInc(user, dm, dc) ==
    LET hit == {s \in stats : s.user = user}
    IN  IF hit = {} THEN stats
        ELSE LET s == First(hit)
             IN  (stats \ {s}) \cup
                 {[s EXCEPT !.memoryUsed = @ + dm, !.apiCallsUsed = @ + dc]}

\* bucketCollection.update({identifier: id}, {$inc: {memoryUsed: dm}})
BucketInc(id, dm) ==
    LET hit == {b \in buckets : b.identifier = id}
    IN  IF hit = {} THEN buckets
        ELSE LET b == First(hit)
             IN  (buckets \ {b}) \cup {[b EXCEPT !.memoryUsed = @ + dm]}

\* createUserStats, lines 180-186: the document it saves
NewStats(id, user) ==
    [_id |-> id, user |-> user,
     apiCallsAllocated |-> API_CALLS_ALLOCATED,
     memoryAllocated |-> MEMORY_ALLOCATED,
     apiCallsUsed |-> 0, memoryUsed |-> 0]

\* getIBucket that forgets the user: a variant the properties must tell from
\* the source
GetIBucketByNameOnly(name, user) ==
    FindOne({b \in buckets : b.name = name})
\* getIBucket(bucket, user): by (user, name) when a user is given
GetIBucketByName(name, user) ==
    FindOne({b \in buckets : b.user = user /\ b.name = name})
\* getIBucket(bucket): by identifier when no user is given
GetIBucketById(id) ==
    FindOne({b \in buckets : b.identifier = id})

\* stats.findOne({user: user})
GetUserStats(user) == FindOne({s \in stats : s.user = user})

\* the objects of the remote file bucket.file(file)
RemoteFile(bucket, file) ==
    {o \in gcs.objects : o.bucket = bucket /\ o.file = file}

Idle == [op |-> "idle", pc |-> "idle"]
\* resolved, rejected, or hung: an exception thrown inside a callback leaves
\* the promise unsettled for ever
Settled == {"idle", "resolved", "rejected", "hung"}
\* A process takes a new request when it runs none; requests are handed to
\* the first process that is free (the processes are interchangeable).
Free(p) ==
    /\ p \in cfg.procs
    /\ ops[p].pc \in Settled
    /\ \A q \in cfg.procs : q < p => ops[q].pc \notin Settled
\* an Error, by what it reports
Err(what) == [error |-> what]
\* a value a promise resolves with
Val(v) == [value |-> v]
\* the promise of p's operation is resolved or rejected with `what`
Outcome(p, how, what) == [op |-> ops[p].op, pc |-> how, result |-> what]
Settle(p, how, what) == ops' = [ops EXCEPT ![p] = Outcome(p, how, what)]
Resolve(p, v) == Settle(p, "resolved", Val(v))
Reject(p, what) == Settle(p, "rejected", Err(what))
Goto(p, pc) == ops' = [ops EXCEPT ![p] = [@ EXCEPT !.pc = pc]]
At(p, op, pc) == ops[p].op = op /\ ops[p].pc = pc

(***************************************************************************)
(* createBucket(name, user), lines 255-307                                 *)
(***************************************************************************)
\* line 259 generates bucketID, line 265 issues the lookup
CreateBucketCall(p) ==
    /\ Free(p)
    /\ nextBucket < cfg.buckets
    /\ \E name \in cfg.names, user \in cfg.users :
        ops' = [ops EXCEPT ![p] = [op |-> "createBucket", pc |-> "getIBucket",
                                   name |-> name, user |-> user,
                                   bucketID |-> BucketIdentifier(nextBucket + 1)]]
    /\ nextBucket' = nextBucket + 1
    /\ UNCHANGED <<stores, nextFile, failures, deleted, spent, cfg>>

\* that.getIBucket(name, user).then(...): lines 265-268
CreateBucketLookup(p) ==
    /\ At(p, "createBucket", "getIBucket")
    /\ \E ok \in Outcomes :
        /\ Fail(ok)
        /\ IF ~ok THEN Reject(p, "StoreError")
           ELSE IF GetIBucketByName(ops[p].name, ops[p].user) # Null
                THEN Reject(p, "Conflict")
                ELSE Goto(p, "gcsCreateBucket")
    /\ UNCHANGED <<stores, ids, spent, cfg>>

\* gcs.createBucket(bucketID, ...): lines 271-274
CreateBucketRemote(p) ==
    /\ At(p, "createBucket", "gcsCreateBucket")
    /\ \E ok \in Outcomes :
        /\ Fail(ok)
        /\ IF ~ok THEN /\ Reject(p, "RemoteError")
                       /\ UNCHANGED gcs
           ELSE /\ gcs' = [gcs EXCEPT !.buckets = @ \cup {ops[p].bucketID}]
                /\ Goto(p, "bucketSave")
    /\ UNCHANGED <<stats, buckets, files, ids, spent, cfg>>

\* the entry of lines 277-283
NewBucketEntry(p) ==
    [_id |-> ops[p].bucketID, name |-> ops[p].name,
     identifier |-> ops[p].bucketID, user |-> ops[p].user, memoryUsed |-> 0]

\* bucketCollection.save(newEntry, ...): lines 286-289
CreateBucketSave(p) ==
    /\ At(p, "createBucket", "bucketSave")
    /\ \E ok \in Outcomes :
        /\ Fail(ok)
        /\ IF ~ok THEN /\ Reject(p, "StoreError")
                       /\ UNCHANGED buckets
           ELSE /\ buckets' = buckets \cup {NewBucketEntry(p)}
                /\ Goto(p, "statsInc")
    /\ UNCHANGED <<stats, files, gcs, ids, spent, cfg>>

\* stats.update(..., {$inc: {apiCallsUsed: 1}}, ...): lines 293-296; err is
\* not read
CreateBucketCharge(p) ==
    /\ At(p, "createBucket", "statsInc")
    /\ \E ok \in Outcomes :
        /\ Fail(ok)
        /\ stats' = IF ok THEN StatsInc(ops[p].user, 0, 1) ELSE stats
    /\ Resolve(p, ops[p].bucketID)
    /\ UNCHANGED <<buckets, files, gcs, ids, spent, cfg>>

CreateBucket(p) ==
    \/ CreateBucketCall(p)
    \/ CreateBucketLookup(p)
    \/ CreateBucketRemote(p)
    \/ CreateBucketSave(p)
    \/ CreateBucketCharge(p)

(***************************************************************************)
(* Bytes and the transform streams _zipper, _unzipper and _deflater, made   *)
(* once by the constructor (lines 37-39) and piped into by every transfer. *)
(***************************************************************************)
\* the content of the part uploaded as file fileID
Content(fileID) == [plain |-> fileID]
\* no byte at all
NoBytes == [none |-> TRUE]
Gzip(bytes) == [gzip |-> bytes]
Gunzip(bytes) == IF "gzip" \in DOMAIN bytes THEN bytes.gzip ELSE NoBytes
Deflate(bytes) == [deflate |-> bytes]
\* what a transform stream makes of the bytes written to it
Transform(stage, bytes) ==
    CASE stage = "gzip" -> Gzip(bytes)
      [] stage = "gunzip" -> Gunzip(bytes)
      [] stage = "deflate" -> Deflate(bytes)
\* source.pipe(stage1).pipe(stage2)...: the bytes that come out, and the
\* streams that have ended afterwards.  pipe ends its destination when the
\* source ends, and a stream that has ended takes no more bytes: nothing
\* comes out of it again.
RECURSIVE Pipe(_, _, _)
Pipe(stages, bytes, ended) ==
    IF stages = <<>> THEN [body |-> bytes, spent |-> ended]
    ELSE IF Head(stages) \in ended THEN [body |-> NoBytes, spent |-> ended]
    ELSE Pipe(Tail(stages), Transform(Head(stages), bytes),
              ended \cup {Head(stages)})

(***************************************************************************)
(* canUpload(user, part), lines 620-644                                    *)
(***************************************************************************)
\* line 633 written with > in place of >=: a variant the properties must tell
\* from the source
CanUploadMemoryInclusive(result, byteCount) ==
    result.memoryUsed + byteCount <= result.memoryAllocated
\* line 633
CanUploadMemory(result, byteCount) ==
    result.memoryUsed + byteCount < result.memoryAllocated
\* line 635 without the call being made: a variant the properties must tell
\* from the source
CanUploadApiUncounted(result) ==
    result.apiCallsUsed < result.apiCallsAllocated
\* line 635
CanUploadApi(result) ==
    result.apiCallsUsed + 1 < result.apiCallsAllocated
\* what the promise of canUpload settles with, given the document read
CanUpload(result, byteCount) ==
    IF CanUploadMemory(result, byteCount)
    THEN IF CanUploadApi(result) THEN "ok" ELSE "ApiError"
    ELSE "MemoryError"

(***************************************************************************)
(* uploadStream(part, bucketEntry, user, makePublic), lines 839-916        *)
(***************************************************************************)
\* The caller passes a bucket entry it has looked up.  The part has a byte
\* count and a content type that compressible() accepts or not.  The file
\* identifier of line 853 is random and unobserved until the stream is
\* opened; it is drawn with the call.
UploadCall(p) ==
    /\ Free(p)
    /\ nextFile < cfg.files
    /\ \E byteCount \in cfg.sizes, compressible \in cfg.compressible,
          bucketEntry \in buckets, user \in cfg.users,
          makePublic \in cfg.publish :
        ops' = [ops EXCEPT ![p] =
                  [op |-> "uploadStream", pc |-> "canUpload",
                   part |-> [byteCount |-> byteCount,
                             compressible |-> compressible],
                   bucketId |-> bucketEntry.identifier,
                   bucketName |-> bucketEntry.name,
                   user |-> user, makePublic |-> makePublic,
                   fileID |-> nextFile + 1, transferred |-> 0,
                   storageStats |-> Null, before |-> Null]]
    /\ nextFile' = nextFile + 1
    /\ UNCHANGED <<stores, nextBucket, failures, deleted, spent, cfg>>

\* that.canUpload(user, part).then(...): lines 849-855 and 870-877.  With no
\* document for the user, line 633 throws inside the callback.  Line 851
\* keeps the document read in storageStats.
UploadCheck(p) ==
    /\ At(p, "uploadStream", "canUpload")
    /\ \E ok \in Outcomes :
        /\ Fail(ok)
        /\ LET result == GetUserStats(ops[p].user)
           IN  IF ~ok THEN Reject(p, "StoreError")
               ELSE IF result = Null THEN Settle(p, "hung", Err("TypeError"))
               ELSE IF CanUpload(result, ops[p].part.byteCount) = "ok"
                    THEN ops' = [ops EXCEPT ![p] =
                                   [@ EXCEPT !.pc = "streaming",
                                             !.storageStats = result]]
                    ELSE Reject(p, CanUpload(result, ops[p].part.byteCount))
    /\ UNCHANGED <<stores, ids, spent, cfg>>

\* lines 874-877: the part is piped through the zipper when its content type
\* is compressible
UploadPipe(p) ==
    Pipe(IF ops[p].part.compressible THEN <<"gzip">> ELSE <<>>,
         Content(ops[p].fileID), spent)

\* an object written without the marker of line 875: a variant the
\* properties must tell from the source
NewObjectUnmarked(p) ==
    [bucket |-> ops[p].bucketId, file |-> ops[p].fileID,
     encoded |-> FALSE, public |-> FALSE,
     bytes |-> UploadPipe(p).body]
\* the object the write stream of lines 875/877 leaves in the bucket
NewObject(p) ==
    [bucket |-> ops[p].bucketId, file |-> ops[p].fileID,
     encoded |-> ops[p].part.compressible, public |-> FALSE,
     bytes |-> UploadPipe(p).body]

\* stream 'complete', lines 884-886: the object is written; `transferred`
\* bytes flowed through the part.  `before` keeps the documents the commits
\* of lines 886 and 888 are about to update (history, read by no action).
UploadComplete(p) ==
    /\ At(p, "uploadStream", "streaming")
    /\ ops[p].bucketId \in gcs.buckets
    /\ UploadPipe(p).body # NoBytes
    /\ gcs' = [gcs EXCEPT !.objects = @ \cup {NewObject(p)}]
    /\ spent' = UploadPipe(p).spent
    /\ \E n \in IF cfg.shortfall THEN Sizes ELSE {ops[p].part.byteCount} :
        ops' = [ops EXCEPT ![p] =
                  [@ EXCEPT !.pc = "bucketInc", !.transferred = n,
                            !.before = [bucket |-> GetIBucketById(ops[p].bucketId),
                                        stats |-> GetUserStats(ops[p].user)]]]
    /\ UNCHANGED <<stats, buckets, files, ids, failures, cfg>>

\* line 875 with a zipper that has ended: the write stream gets no byte and
\* no end, 'complete' is never emitted and the promise is never settled
UploadStalled(p) ==
    /\ At(p, "uploadStream", "streaming")
    /\ UploadPipe(p).body = NoBytes
    /\ Settle(p, "hung", Err("WriteAfterEnd"))
    /\ UNCHANGED <<stores, ids, spent, failures, cfg>>

\* stream 'error', lines 880-882: the remote write failed
UploadStreamError(p) ==
    /\ At(p, "uploadStream", "streaming")
    /\ CanFail \/ ops[p].bucketId \notin gcs.buckets
    /\ failures' = IF ops[p].bucketId \in gcs.buckets THEN failures + 1
                   ELSE failures
    /\ Reject(p, "UploadError")
    /\ UNCHANGED <<stores, ids, spent, cfg>>

\* a part 'error' after which the upload goes on to its commits: a variant
\* the properties must tell from the source
UploadPartErrorCommits(p) ==
    /\ At(p, "uploadStream", "streaming")
    /\ CanFail
    /\ failures' = failures + 1
    /\ Goto(p, "bucketInc")
    /\ UNCHANGED <<stores, ids, spent, cfg>>
\* part 'error', lines 858-861: the source failed; rawFile.delete is issued
UploadPartError(p) ==
    /\ At(p, "uploadStream", "streaming")
    /\ CanFail
    /\ failures' = failures + 1
    /\ Goto(p, "cleanup")
    /\ UNCHANGED <<stores, ids, spent, cfg>>

\* callback of rawFile.delete, lines 861-867: deleting an object that does not
\* exist fails
UploadCleanup(p) ==
    /\ At(p, "uploadStream", "cleanup")
    /\ \E ok \in Outcomes :
        /\ Fail(ok)
        /\ LET obj == RemoteFile(ops[p].bucketId, ops[p].fileID)
           IN  IF ok /\ obj # {}
               THEN /\ gcs' = [gcs EXCEPT !.objects = @ \ obj]
                    /\ Reject(p, "UploadError")
               ELSE /\ UNCHANGED gcs
                    /\ Reject(p, "CleanupError")
    /\ UNCHANGED <<stats, buckets, files, ids, spent, cfg>>

\* commits that add nothing: a variant the properties must tell from the
\* source
UploadCommitNothing(p) == 0
\* the byte count the commits of lines 886 and 888 add: part.byteCount
UploadCommitBytes(p) == ops[p].part.byteCount

\* bucketCollection.update(..., {$inc: {memoryUsed: part.byteCount}}, ...):
\* line 886; err is not read
UploadBucketInc(p) ==
    /\ At(p, "uploadStream", "bucketInc")
    /\ \E ok \in Outcomes :
        /\ Fail(ok)
        /\ buckets' = IF ok THEN BucketInc(ops[p].bucketId, UploadCommitBytes(p))
                      ELSE buckets
    /\ Goto(p, "statsInc")
    /\ UNCHANGED <<stats, files, gcs, ids, spent, cfg>>

\* statCollection.update(..., {$inc: {memoryUsed: part.byteCount,
\* apiCallsUsed: 1}}, ...): line 888; err is not read
UploadStatsInc(p) ==
    /\ At(p, "uploadStream", "statsInc")
    /\ \E ok \in Outcomes :
        /\ Fail(ok)
        /\ stats' = IF ok THEN StatsInc(ops[p].user, UploadCommitBytes(p), 1)
                    ELSE stats
    /\ Goto(p, "registerFile")
    /\ UNCHANGED <<buckets, files, gcs, ids, spent, cfg>>

\* part.filename
PartFilename == "filename"
\* part.headers["content-type"]: a content type that compressible() accepts,
\* and one it does not
ContentType(compressible) == IF compressible THEN "text/plain" ELSE "image/png"
\* registerFile, lines 796-808: the entry it saves
NewFileEntry(p) ==
    [_id |-> ops[p].fileID, identifier |-> ops[p].fileID,
     name |-> PartFilename, user |-> ops[p].user, bucketId |-> ops[p].bucketId,
     bucketName |-> ops[p].bucketName, size |-> ops[p].part.byteCount,
     isPublic |-> ops[p].makePublic,
     mimeType |-> ContentType(ops[p].part.compressible)]

\* files.save(entry, ...): lines 810-816, then lines 890-901
UploadRegister(p) ==
    /\ At(p, "uploadStream", "registerFile")
    /\ \E ok \in Outcomes :
        /\ Fail(ok)
        /\ IF ~ok THEN /\ Reject(p, "StoreError")
                       /\ UNCHANGED files
           ELSE /\ files' = files \cup {NewFileEntry(p)}
                /\ IF ops[p].makePublic THEN Goto(p, "makePublic")
                   ELSE Resolve(p, ops[p].fileID)
    /\ UNCHANGED <<stats, buckets, gcs, ids, spent, cfg>>

\* rawFile.makePublic(...): lines 893-899
UploadMakePublic(p) ==
    /\ At(p, "uploadStream", "makePublic")
    /\ \E ok \in Outcomes :
        /\ Fail(ok)
        /\ LET obj == RemoteFile(ops[p].bucketId, ops[p].fileID)
           IN  IF ok /\ obj # {}
               THEN /\ gcs' = [gcs EXCEPT !.objects =
                          (@ \ obj) \cup {[o EXCEPT !.public = TRUE] : o \in obj}]
                    /\ Resolve(p, ops[p].fileID)
               ELSE /\ UNCHANGED gcs
                    /\ Reject(p, "RemoteError")
    /\ UNCHANGED <<stats, buckets, files, ids, spent, cfg>>

UploadStream(p) ==
    \/ UploadCall(p)
    \/ UploadCheck(p)
    \/ UploadComplete(p)
    \/ UploadStalled(p)
    \/ UploadStreamError(p)
    \/ UploadPartError(p)
    \/ UploadCleanup(p)
    \/ UploadBucketInc(p)
    \/ UploadStatsInc(p)
    \/ UploadRegister(p)
    \/ UploadMakePublic(p)

(***************************************************************************)
(* Batch removal.  removeBuckets starts one deleteBucket per bucket found   *)
(* and removeFiles one deleteFile per file found; all of them are in       *)
(* flight together.  A batch operation holds                                *)
(*   btasks: bucket identifier -> the deleteBucket of that bucket          *)
(*   ftasks: <<parent, file identifier>> -> the deleteFile of that file,   *)
(*           started by the removeFiles of deleteBucket(parent), or by the *)
(*           removeFiles of removeFilesById (parent TopLevel).             *)
(* removeUser runs the removeBuckets of removeBucketsByUser in the same    *)
(* way, next to its removeUserStats.                                       *)
(***************************************************************************)
TopLevel == 0
BatchOps == {"removeBucketsByName", "removeFilesById"}
Deleting(p) ==
    ops[p].op \in BatchOps \cup {"removeUser"} /\ ops[p].pc = "deleting"
TaskEnded == {"ok", "fail"}

\* removeFiles, lines 517-534: one deleteFile per entry found
FileTasks(parent, entries) ==
    [k \in {<<parent, f._id>> : f \in entries} |->
        LET f == CHOOSE f \in entries : f._id = k[2]
        IN  [pc |-> "getIBucket", size |-> f.size, bucketId |-> f.bucketId,
             owner |-> NoUser, error |-> ""]]

\* the function f extended by the function g
Merge(f, g) ==
    [k \in DOMAIN f \cup DOMAIN g |-> IF k \in DOMAIN g THEN g[k] ELSE f[k]]

\* attempts == l, lines 524 and 531: every deleteFile of this removeFiles
\* has settled
FilesSettled(ft, parent) ==
    \A k \in DOMAIN ft : k[1] = parent => ft[k].pc \in TaskEnded
\* filesRemoved, line 522
FilesRemoved(ft, parent) ==
    {k[2] : k \in {j \in DOMAIN ft : j[1] = parent /\ ft[j].pc = "ok"}}
\* toRemove listing every bucket tried: a variant the properties must tell
\* from the source
BucketsTried(bt) == DOMAIN bt
\* toRemove, line 343
BucketsRemoved(bt) == {b \in DOMAIN bt : bt[b].pc = "ok"}

\* removeUser, lines 233-245: Promise.all of removeUserStats and
\* removeBucketsByUser.  It resolves (line 240, with no value) when both have
\* resolved and is rejected by the first of them that is rejected, while the
\* other runs on; its process is settled here when both have ended.  A
\* removeBuckets that never settles leaves removeUser unsettled unless
\* removeUserStats was rejected.
RemoveUserSettle(p, userStats, batch) ==
    IF userStats = "fail" \/ batch = "fail" THEN Reject(p, "StoreError")
    ELSE IF batch = "hung" THEN Settle(p, "hung", Err("TypeError"))
    ELSE Resolve(p, Undefined)
\* the removeBuckets of a removeUser has ended as `batch`
RemoveUserBatch(p, batch) ==
    IF ops[p].userStats # "remove"
    THEN RemoveUserSettle(p, ops[p].userStats, batch)
    ELSE ops' = [ops EXCEPT ![p] =
                    [op |-> "removeUser", pc |-> "removeUserStats",
                     user |-> ops[p].user, userStats |-> "remove",
                     batch |-> batch]]

\* A deleteBucket settles (lines 340-352): the batch resolves when every
\* deleteBucket has; one whose callback threw never settles, and then the
\* batch never does.
AfterBucket(p, bt) ==
    IF \A b \in DOMAIN bt : bt[b].pc \in TaskEnded
    THEN IF ops[p].op = "removeUser" THEN RemoveUserBatch(p, "ok")
         ELSE Resolve(p, BucketsRemoved(bt))
    ELSE IF \A b \in DOMAIN bt : bt[b].pc \in TaskEnded \cup {"hung"}
    THEN IF ops[p].op = "removeUser" THEN RemoveUserBatch(p, "hung")
         ELSE Settle(p, "hung", Err("TypeError"))
    ELSE ops' = [ops EXCEPT ![p] = [@ EXCEPT !.btasks = bt]]

\* A deleteFile settles (lines 519-533).  When it is the last one of its
\* removeFiles, that resolves: removeFilesById resolves with the files
\* removed, and deleteBucket goes on to delete the remote bucket (line 408).
AfterFile(p, ft, parent) ==
    IF ~FilesSettled(ft, parent)
    THEN ops' = [ops EXCEPT ![p] = [@ EXCEPT !.ftasks = ft]]
    ELSE IF parent = TopLevel
    THEN Resolve(p, FilesRemoved(ft, TopLevel))
    ELSE ops' = [ops EXCEPT ![p] =
                    [@ EXCEPT !.ftasks = ft,
                              !.btasks[parent].pc = "bucketDelete"]]

FileAt(p, k, pc) ==
    /\ Deleting(p)
    /\ k \in DOMAIN ops[p].ftasks
    /\ ops[p].ftasks[k].pc = pc
FileGoto(p, k, pc) ==
    ops' = [ops EXCEPT ![p] = [@ EXCEPT !.ftasks[k].pc = pc]]
FileEnd(p, k, how) ==
    AfterFile(p, [ops[p].ftasks EXCEPT ![k].pc = how], k[1])
\* deleteFile is rejected with the error `what`
FileFail(p, k, what) ==
    AfterFile(p, [ops[p].ftasks EXCEPT ![k].pc = "fail", ![k].error = what],
              k[1])
FileKeys == (0..MaxBuckets) \X (1..MaxFiles)

(***************************************************************************)
(* deleteFile(fileEntry), lines 436-489                                    *)
(***************************************************************************)
\* deleteFile that goes on without a bucket entry: a variant the properties
\* must tell from the source
DeleteFileLookupUnchecked(p, k) ==
    /\ FileAt(p, k, "getIBucket")
    /\ \E ok \in Outcomes :
        /\ Fail(ok)
        /\ IF ok THEN FileGoto(p, k, "fileDelete")
           ELSE FileFail(p, k, "StoreError")
    /\ UNCHANGED <<stores, ids, spent, cfg>>
\* that.getIBucket(fileEntry.bucketId).then(...): lines 446-454
DeleteFileLookup(p, k) ==
    /\ FileAt(p, k, "getIBucket")
    /\ \E ok \in Outcomes :
        /\ Fail(ok)
        /\ LET bucketEntry == GetIBucketById(ops[p].ftasks[k].bucketId)
           IN  IF ~ok THEN FileFail(p, k, "StoreError")
               ELSE IF bucketEntry = Null THEN FileFail(p, k, "NotFound")
               ELSE ops' = [ops EXCEPT ![p] =
                             [@ EXCEPT !.ftasks[k].pc = "fileDelete",
                                       !.ftasks[k].owner = bucketEntry.user]]
    /\ UNCHANGED <<stores, ids, spent, cfg>>

\* bucket.file(fileEntry.identifier).delete(...): lines 454-460; deleting an
\* object that does not exist fails
DeleteFileRemote(p, k) ==
    /\ FileAt(p, k, "fileDelete")
    /\ \E ok \in Outcomes :
        /\ Fail(ok)
        /\ LET obj == RemoteFile(ops[p].ftasks[k].bucketId, k[2])
           IN  IF ok /\ obj # {}
               THEN /\ gcs' = [gcs EXCEPT !.objects = @ \ obj]
                    /\ FileGoto(p, k, "bucketDec")
               ELSE /\ UNCHANGED gcs
                    /\ FileFail(p, k, "RemoteError")
    /\ UNCHANGED <<stats, buckets, files, ids, spent, cfg>>

\* deleteFile that goes on when the update of the bucket fails: a variant the
\* properties must tell from the source
DeleteFileBucketDecLenient(p, k) ==
    /\ FileAt(p, k, "bucketDec")
    /\ \E ok \in Outcomes :
        /\ Fail(ok)
        /\ buckets' = IF ok THEN BucketInc(ops[p].ftasks[k].bucketId,
                                           -ops[p].ftasks[k].size)
                      ELSE buckets
        /\ FileGoto(p, k, "fileRemove")
    /\ UNCHANGED <<stats, files, gcs, ids, spent, cfg>>
\* bucketCollection.update(..., {$inc: {memoryUsed: -fileEntry.size}}, ...):
\* lines 460-466
DeleteFileBucketDec(p, k) ==
    /\ FileAt(p, k, "bucketDec")
    /\ \E ok \in Outcomes :
        /\ Fail(ok)
        /\ IF ok
           THEN /\ buckets' = BucketInc(ops[p].ftasks[k].bucketId,
                                        -ops[p].ftasks[k].size)
                /\ FileGoto(p, k, "fileRemove")
           ELSE /\ UNCHANGED buckets
                /\ FileFail(p, k, "StoreError")
    /\ UNCHANGED <<stats, files, gcs, ids, spent, cfg>>

\* files.remove({_id: fileEntry._id}, ...): lines 466-472
DeleteFileRemove(p, k) ==
    /\ FileAt(p, k, "fileRemove")
    /\ \E ok \in Outcomes :
        /\ Fail(ok)
        /\ IF ok
           THEN /\ files' = {f \in files : f._id # k[2]}
                /\ FileGoto(p, k, "statsDec")
           ELSE /\ UNCHANGED files
                /\ FileFail(p, k, "StoreError")
    /\ UNCHANGED <<stats, buckets, gcs, ids, spent, cfg>>

\* stats.update({user: bucketEntry.user}, {$inc: {memoryUsed:
\* -fileEntry.size, apiCallsUsed: 1}}, ...): lines 472-478
DeleteFileStatsDec(p, k) ==
    /\ FileAt(p, k, "statsDec")
    /\ \E ok \in Outcomes :
        /\ Fail(ok)
        /\ IF ok
           THEN /\ stats' = StatsInc(ops[p].ftasks[k].owner,
                                     -ops[p].ftasks[k].size, 1)
                /\ FileEnd(p, k, "ok")
           ELSE /\ UNCHANGED stats
                /\ FileFail(p, k, "StoreError")
    /\ UNCHANGED <<buckets, files, gcs, ids, spent, cfg>>

DeleteFile(p, k) ==
    \/ DeleteFileLookup(p, k)
    \/ DeleteFileRemote(p, k)
    \/ DeleteFileBucketDec(p, k)
    \/ DeleteFileRemove(p, k)
    \/ DeleteFileStatsDec(p, k)

(***************************************************************************)
(* deleteBucket(bucketEntry), lines 395-431                                *)
(***************************************************************************)
BucketAt(p, b, pc) ==
    /\ Deleting(p)
    /\ b \in DOMAIN ops[p].btasks
    /\ ops[p].btasks[b].pc = pc
BucketGoto(p, b, pc) ==
    ops' = [ops EXCEPT ![p] = [@ EXCEPT !.btasks[b].pc = pc]]
BucketEnd(p, b, how) ==
    AfterBucket(p, [ops[p].btasks EXCEPT ![b].pc = how])

\* removeFilesByBucket(bucket), line 576: the files the query selects
FilesByBucket(bucket) ==
    {f \in files : f.bucketId = bucket \/ f.bucketName = bucket}

\* that.removeFilesByBucket(bucketEntry.identifier): the callback of
\* files.find in removeFiles, lines 509-538.  A failure of find rejects
\* (line 512) and deleteBucket rejects (line 428); the err of toArray is not
\* read, and line 517 throws on the undefined array.
DeleteBucketFindFiles(p, b) ==
    /\ BucketAt(p, b, "findFiles")
    /\ \E ok \in Outcomes :
        /\ Fail(ok)
        /\ IF ok
           THEN IF FilesByBucket(b) = {}
                THEN BucketGoto(p, b, "bucketDelete")
                ELSE ops' = [ops EXCEPT ![p] =
                        [@ EXCEPT !.btasks[b].pc = "files",
                                  !.ftasks = Merge(@, FileTasks(b, FilesByBucket(b)))]]
           ELSE \E failed \in {"find", "toArray"} :
                BucketEnd(p, b, IF failed = "find" THEN "fail" ELSE "hung")
    /\ UNCHANGED <<stores, ids, spent, cfg>>

\* bucket.delete(...): lines 408-415.  The storage deletes a bucket that
\* exists and is empty.
DeleteBucketRemote(p, b) ==
    /\ BucketAt(p, b, "bucketDelete")
    /\ \E ok \in Outcomes :
        /\ Fail(ok)
        /\ IF /\ ok
              /\ b \in gcs.buckets
              /\ \A o \in gcs.objects : o.bucket # b
           THEN /\ gcs' = [gcs EXCEPT !.buckets = @ \ {b}]
                /\ BucketGoto(p, b, "bucketRemove")
           ELSE /\ UNCHANGED gcs
                /\ BucketEnd(p, b, "fail")
    /\ UNCHANGED <<stats, buckets, files, ids, spent, cfg>>

\* bucketCollection.remove({_id: bucketEntry._id}, ...): lines 415-418; err
\* is not read
DeleteBucketRemove(p, b) ==
    /\ BucketAt(p, b, "bucketRemove")
    /\ \E ok \in Outcomes :
        /\ Fail(ok)
        /\ buckets' = IF ok THEN {e \in buckets : e._id # b} ELSE buckets
    /\ BucketGoto(p, b, "statsInc")
    /\ UNCHANGED <<stats, files, gcs, ids, spent, cfg>>

\* stats.update({user: bucketEntry.user}, {$inc: {apiCallsUsed: 1}}, ...):
\* lines 418-421; err is not read
DeleteBucketCharge(p, b) ==
    /\ BucketAt(p, b, "statsInc")
    /\ \E ok \in Outcomes :
        /\ Fail(ok)
        /\ stats' = IF ok THEN StatsInc(ops[p].btasks[b].user, 0, 1) ELSE stats
    /\ BucketEnd(p, b, "ok")
    /\ deleted' = deleted \cup {[user |-> ops[p].btasks[b].user,
                                name |-> ops[p].btasks[b].name]}
    /\ UNCHANGED <<buckets, files, gcs, nextBucket, nextFile, spent, cfg>>

DeleteBucket(p, b) ==
    \/ DeleteBucketFindFiles(p, b)
    \/ DeleteBucketRemote(p, b)
    \/ DeleteBucketRemove(p, b)
    \/ DeleteBucketCharge(p, b)

(***************************************************************************)
(* removeBucketsByName(buckets, user), lines 369-380, and removeBuckets,   *)
(* lines 314-361                                                           *)
(***************************************************************************)
\* what removeBucketsByName returns for an empty list: line 372
EmptyBucketList == Undefined

\* the query without the user: a variant the properties must tell from the
\* source
BucketsByNameOnly(names, user) ==
    {b \in buckets : b.name \in names}
\* the query of lines 375-377
BucketsByName(names, user) ==
    {b \in buckets : b.user = user /\ b.name \in names}

RemoveBucketsByNameCall(p) ==
    /\ Free(p)
    /\ \E names \in SUBSET cfg.names, user \in cfg.users :
        ops' = [ops EXCEPT ![p] =
                  IF names = {}
                  THEN [op |-> "removeBucketsByName", pc |-> "resolved",
                        result |-> EmptyBucketList]
                  ELSE [op |-> "removeBucketsByName", pc |-> "find",
                        names |-> names, user |-> user]]
    /\ UNCHANGED <<stores, ids, spent, failures, cfg>>

\* lines 338-353: one deleteBucket per bucket found, each issuing its
\* files.find.  Of each bucket entry the deleteBucket reads identifier, _id
\* and user; `name`, `held` (the bucket's files) and `before` (the owner's
\* usage document) are history, read by no action.
BucketTasks(found) ==
    [b \in {e.identifier : e \in found} |->
        LET e == CHOOSE e \in found : e.identifier = b
        IN  [pc |-> "findFiles", user |-> e.user, name |-> e.name,
             held |-> {f \in files : f.bucketId = b},
             before |-> GetUserStats(e.user)]]

\* bucketCollection.find(searchQuery, ...) and cursor.toArray(...): lines
\* 324-357.  The record of a removal in flight keeps the user it was called
\* with.
RemoveBucketsFind(p) ==
    /\ At(p, "removeBucketsByName", "find")
    /\ \E ok \in Outcomes :
        /\ Fail(ok)
        /\ LET found == BucketsByName(ops[p].names, ops[p].user)
           IN  IF ~ok THEN Reject(p, "StoreError")
               ELSE IF found = {} THEN Resolve(p, {})
               ELSE ops' = [ops EXCEPT ![p] =
                      [op |-> "removeBucketsByName", pc |-> "deleting",
                       user |-> ops[p].user,
                       btasks |-> BucketTasks(found), ftasks |-> <<>>]]
    /\ UNCHANGED <<stores, ids, spent, cfg>>

RemoveBucketsByName(p) ==
    \/ RemoveBucketsByNameCall(p)
    \/ RemoveBucketsFind(p)
    \/ \E b \in 1..MaxBuckets : DeleteBucket(p, b)

(***************************************************************************)
(* removeFilesById(fileIDs, user), lines 549-563, and removeFiles, lines   *)
(* 496-541                                                                 *)
(***************************************************************************)
\* what removeFilesById returns for an empty list: line 552
EmptyFileList == Undefined

\* the query of lines 555-560
FilesById(fileIDs, user) ==
    {f \in files : f.identifier \in fileIDs /\ (user # NoUser => f.user = user)}

RemoveFilesByIdCall(p) ==
    /\ Free(p)
    /\ \E fileIDs \in SUBSET (1..nextFile), user \in cfg.users \cup {NoUser} :
        ops' = [ops EXCEPT ![p] =
                  IF fileIDs = {}
                  THEN [op |-> "removeFilesById", pc |-> "resolved",
                        result |-> EmptyFileList]
                  ELSE [op |-> "removeFilesById", pc |-> "find",
                        fileIDs |-> fileIDs, user |-> user]]
    /\ UNCHANGED <<stores, ids, spent, failures, cfg>>

\* files.find(searchQuery, ...) and cursor.toArray(...): lines 509-538
RemoveFilesFind(p) ==
    /\ At(p, "removeFilesById", "find")
    /\ \E ok \in Outcomes :
        /\ Fail(ok)
        /\ LET found == FilesById(ops[p].fileIDs, ops[p].user)
           IN  IF ok
               THEN IF found = {} THEN Resolve(p, {})
                    ELSE ops' = [ops EXCEPT ![p] =
                           [op |-> "removeFilesById", pc |-> "deleting",
                            user |-> ops[p].user, btasks |-> <<>>,
                            ftasks |-> FileTasks(TopLevel, found)]]
               ELSE \E failed \in {"find", "toArray"} :
                    IF failed = "find" THEN Reject(p, "StoreError")
                    ELSE Settle(p, "hung", Err("TypeError"))
    /\ UNCHANGED <<stores, ids, spent, cfg>>

RemoveFilesById(p) ==
    \/ RemoveFilesByIdCall(p)
    \/ RemoveFilesFind(p)

(***************************************************************************)
(* downloadFile(request, response, file), lines 982-1039                   *)
(***************************************************************************)
\* acceptEncoding.match(/\bgzip\b/): the header holds the token
Matches(acceptEncoding, token) ==
    \E i \in DOMAIN acceptEncoding : acceptEncoding[i] = token

\* Two variants the properties must tell from the source: one that sets the
\* gzip header on every answer to a header accepting gzip, ...
RespondGzipHeader(encoded, acceptEncoding) ==
    IF Matches(acceptEncoding, "gzip")
    THEN [contentEncoding |-> "gzip", stages |-> <<>>]
    ELSE IF Matches(acceptEncoding, "deflate")
    THEN IF encoded
         THEN [contentEncoding |-> "deflate", stages |-> <<"gunzip", "deflate">>]
         ELSE [contentEncoding |-> "deflate", stages |-> <<"deflate">>]
    ELSE IF encoded
         THEN [contentEncoding |-> "", stages |-> <<"gunzip">>]
         ELSE [contentEncoding |-> "", stages |-> <<>>]
\* ... and one that always unzips what is stored compressed before it
\* encodes it for the client
RespondRecompress(encoded, acceptEncoding) ==
    IF Matches(acceptEncoding, "gzip")
    THEN IF encoded
         THEN [contentEncoding |-> "gzip", stages |-> <<"gunzip", "gzip">>]
         ELSE [contentEncoding |-> "", stages |-> <<>>]
    ELSE IF Matches(acceptEncoding, "deflate")
    THEN IF encoded
         THEN [contentEncoding |-> "deflate", stages |-> <<"gunzip", "deflate">>]
         ELSE [contentEncoding |-> "deflate", stages |-> <<"deflate">>]
    ELSE IF encoded
         THEN [contentEncoding |-> "", stages |-> <<"gunzip">>]
         ELSE [contentEncoding |-> "", stages |-> <<>>]

\* lines 1007-1037: the content-encoding header set ("" when none is) and
\* the transform streams piped between the read stream and the response
Respond(encoded, acceptEncoding) ==
    IF Matches(acceptEncoding, "gzip")
    THEN IF encoded
         THEN [contentEncoding |-> "gzip", stages |-> <<>>]
         ELSE [contentEncoding |-> "", stages |-> <<>>]
    ELSE IF Matches(acceptEncoding, "deflate")
    THEN IF encoded
         THEN [contentEncoding |-> "deflate", stages |-> <<"gunzip", "deflate">>]
         ELSE [contentEncoding |-> "deflate", stages |-> <<"deflate">>]
    ELSE IF encoded
         THEN [contentEncoding |-> "", stages |-> <<"gunzip">>]
         ELSE [contentEncoding |-> "", stages |-> <<>>]

\* the caller passes a file entry it has looked up; line 991 issues
\* getMetadata.  A request without the header reads as the empty header
\* (lines 997-999).
DownloadCall(p) ==
    /\ Free(p)
    /\ \E file \in files, acceptEncoding \in cfg.accepts :
        ops' = [ops EXCEPT ![p] =
                  [op |-> "downloadFile", pc |-> "getMetadata",
                   bucketId |-> file.bucketId, fileID |-> file.identifier,
                   acceptEncoding |-> acceptEncoding]]
    /\ UNCHANGED <<stores, ids, spent, failures, cfg>>

\* meta.metadata.encoded, lines 1002-1004, of the object read
Encoded(obj) == \E o \in obj : o.encoded

\* iFile.createReadStream(), line 1001: the bytes of the object read
Stored(obj) == (CHOOSE o \in obj : TRUE).bytes

\* callback of iFile.getMetadata, lines 991-1038: status 500 on an error,
\* else the response is piped: `result` is the header set and the streams
\* piped, `body` the bytes that reach the response
DownloadMetadata(p) ==
    /\ At(p, "downloadFile", "getMetadata")
    /\ \E ok \in Outcomes :
        /\ Fail(ok)
        /\ LET obj == RemoteFile(ops[p].bucketId, ops[p].fileID)
               response == Respond(Encoded(obj), ops[p].acceptEncoding)
               piped == Pipe(response.stages, Stored(obj), spent)
           IN  IF ok /\ obj # {}
               THEN /\ ops' = [ops EXCEPT ![p] =
                                 [op |-> "downloadFile", pc |-> "resolved",
                                  result |-> Val(response),
                                  body |-> piped.body]]
                    /\ spent' = piped.spent
               ELSE /\ Reject(p, "Status500")
                    /\ UNCHANGED spent
    /\ UNCHANGED <<stores, ids, cfg>>

DownloadFile(p) ==
    \/ DownloadCall(p)
    \/ DownloadMetadata(p)


(***************************************************************************)
(* withinAPILimit(user), lines 651-670, and incrementAPI(user), lines      *)
(* 677-692                                                                 *)
(***************************************************************************)
\* line 664
WithinAPILimit(result) == result.apiCallsUsed + 1 < result.apiCallsAllocated

\* what the promise of withinAPILimit settles with: lines 658-667
WithinAPILimitAnswer(user, ok) ==
    LET result == GetUserStats(user)
    IN  IF ~ok THEN Err("StoreError")
        ELSE IF result = Null THEN Err("NotFound")
        ELSE Val(WithinAPILimit(result))

\* withinAPILimit called by itself, for any user
WithinAPILimitCall(p) ==
    /\ Free(p)
    /\ cfg.metadata
    /\ \E user \in cfg.users :
        ops' = [ops EXCEPT ![p] = [op |-> "withinAPILimit", pc |-> "findOne",
                                   user |-> user]]
    /\ UNCHANGED <<stores, ids, spent, failures, cfg>>

WithinAPILimitFound(p) ==
    /\ At(p, "withinAPILimit", "findOne")
    /\ \E ok \in Outcomes :
        /\ Fail(ok)
        /\ LET answer == WithinAPILimitAnswer(ops[p].user, ok)
           IN  Settle(p, IF "value" \in DOMAIN answer THEN "resolved"
                         ELSE "rejected", answer)
    /\ UNCHANGED <<stores, ids, spent, cfg>>

WithinAPILimitCheck(p) ==
    \/ WithinAPILimitCall(p)
    \/ WithinAPILimitFound(p)

(***************************************************************************)
(* makeFilePublic(file), lines 699-735, and makeFilePrivate(file), lines   *)
(* 742-778: the same code but for the remote call and the flag set         *)
(***************************************************************************)
Visibility == {"makeFilePublic", "makeFilePrivate"}
\* the flag the operation sets: lines 720 and 763
IsPublic(op) == op = "makeFilePublic"

\* the caller passes a file entry it has looked up
MakeFilePublicCall(p) ==
    /\ Free(p)
    /\ cfg.metadata
    /\ \E file \in files, op \in Visibility :
        ops' = [ops EXCEPT ![p] =
                  [op |-> op, pc |-> "withinAPILimit",
                   file |-> [user |-> file.user, bucketId |-> file.bucketId,
                             identifier |-> file.identifier]]]
    /\ UNCHANGED <<stores, ids, spent, failures, cfg>>

\* The catch of lines 729-732 and 772-775 evaluates `new err` on the error
\* it caught, which throws: reject is not called and the promise is never
\* settled.
CaughtError(p) == Settle(p, "hung", Err("TypeError"))

\* that.withinAPILimit(file.user).then(...): lines 704-709 and 747-752
MakeFilePublicLimit(p) ==
    /\ ops[p].op \in Visibility
    /\ ops[p].pc = "withinAPILimit"
    /\ \E ok \in Outcomes :
        /\ Fail(ok)
        /\ IF WithinAPILimitAnswer(ops[p].file.user, ok) = Val(TRUE)
           THEN Goto(p, "incrementAPI")
           ELSE CaughtError(p)
    /\ UNCHANGED <<stores, ids, spent, cfg>>

\* that.incrementAPI(file.user), lines 709 and 752: the update of line 684
MakeFilePublicIncrement(p) ==
    /\ ops[p].op \in Visibility
    /\ ops[p].pc = "incrementAPI"
    /\ \E ok \in Outcomes :
        /\ Fail(ok)
        /\ IF ok THEN /\ stats' = StatsInc(ops[p].file.user, 0, 1)
                      /\ Goto(p, "remote")
           ELSE /\ UNCHANGED stats
                /\ CaughtError(p)
    /\ UNCHANGED <<buckets, files, gcs, ids, spent, cfg>>

\* rawFile.makePublic / rawFile.makePrivate: lines 713-718 and 756-761
MakeFilePublicRemote(p) ==
    /\ ops[p].op \in Visibility
    /\ ops[p].pc = "remote"
    /\ \E ok \in Outcomes :
        /\ Fail(ok)
        /\ LET obj == RemoteFile(ops[p].file.bucketId, ops[p].file.identifier)
           IN  IF ok /\ obj # {}
               THEN /\ gcs' = [gcs EXCEPT !.objects = (@ \ obj) \cup
                          {[o EXCEPT !.public = IsPublic(ops[p].op)] : o \in obj}]
                    /\ Goto(p, "update")
               ELSE /\ UNCHANGED gcs
                    /\ Reject(p, "RemoteError")
    /\ UNCHANGED <<stats, buckets, files, ids, spent, cfg>>

\* that._files.update(..., {$set: {isPublic: ...}}, ...): lines 720-725 and
\* 763-768
MakeFilePublicUpdate(p) ==
    /\ ops[p].op \in Visibility
    /\ ops[p].pc = "update"
    /\ \E ok \in Outcomes :
        /\ Fail(ok)
        /\ IF ok
           THEN /\ files' = {IF /\ f.bucketId = ops[p].file.bucketId
                                /\ f.identifier = ops[p].file.identifier
                             THEN [f EXCEPT !.isPublic = IsPublic(ops[p].op)]
                             ELSE f : f \in files}
                /\ Resolve(p, ops[p].file.identifier)
           ELSE /\ UNCHANGED files
                /\ Reject(p, "StoreError")
    /\ UNCHANGED <<stats, buckets, gcs, ids, spent, cfg>>

MakeFilePublic(p) ==
    \/ MakeFilePublicCall(p)
    \/ MakeFilePublicLimit(p)
    \/ MakeFilePublicIncrement(p)
    \/ MakeFilePublicRemote(p)
    \/ MakeFilePublicUpdate(p)

(***************************************************************************)
(* renameFile(file, name), lines 954-973                                   *)
(***************************************************************************)
\* the names files are renamed to
NewNames == {"renamed"}

\* the caller passes a file entry it has looked up
RenameFileCall(p) ==
    /\ Free(p)
    /\ cfg.metadata
    /\ \E file \in files, name \in NewNames :
        /\ GetUserStats(file.user) # Null =>
               GetUserStats(file.user).apiCallsUsed < MaxApiCalls
        /\ ops' = [ops EXCEPT ![p] =
                     [op |-> "renameFile", pc |-> "incrementAPI",
                      file |-> [_id |-> file._id, user |-> file.user],
                      name |-> name]]
    /\ UNCHANGED <<stores, ids, spent, failures, cfg>>

\* renameFile without its charge: a variant the properties must tell from
\* the source
RenameFileIncrementFree(p) ==
    /\ At(p, "renameFile", "incrementAPI")
    /\ Goto(p, "update")
    /\ UNCHANGED <<stores, ids, spent, failures, cfg>>

\* that.incrementAPI(file.user).then(...), line 962: the update of line 684.
\* No handler takes the rejection of incrementAPI: the promise of renameFile
\* is never settled.
RenameFileIncrement(p) ==
    /\ At(p, "renameFile", "incrementAPI")
    /\ \E ok \in Outcomes :
        /\ Fail(ok)
        /\ IF ok THEN /\ stats' = StatsInc(ops[p].file.user, 0, 1)
                      /\ Goto(p, "update")
           ELSE /\ UNCHANGED stats
                /\ Settle(p, "hung", Err("StoreError"))
    /\ UNCHANGED <<buckets, files, gcs, ids, spent, cfg>>

\* files.update({_id: file._id}, {$set: {name: name}}, ...): lines 964-970
RenameFileUpdate(p) ==
    /\ At(p, "renameFile", "update")
    /\ \E ok \in Outcomes :
        /\ Fail(ok)
        /\ IF ok
           THEN /\ files' = {IF f._id = ops[p].file._id
                             THEN [f EXCEPT !.name = ops[p].name]
                             ELSE f : f \in files}
                /\ Resolve(p, ops[p].file._id)
           ELSE /\ UNCHANGED files
                /\ Reject(p, "StoreError")
    /\ UNCHANGED <<stats, buckets, gcs, ids, spent, cfg>>

RenameFile(p) ==
    \/ RenameFileCall(p)
    \/ RenameFileIncrement(p)
    \/ RenameFileUpdate(p)

(***************************************************************************)
(* incrementAPI(user), lines 677-692, called by itself                     *)
(***************************************************************************)
IncrementAPICall(p) ==
    /\ Free(p)
    /\ cfg.metadata
    /\ \E user \in cfg.users :
        /\ GetUserStats(user) # Null =>
              GetUserStats(user).apiCallsUsed < MaxApiCalls
        /\ ops' = [ops EXCEPT ![p] = [op |-> "incrementAPI", pc |-> "update",
                                      user |-> user]]
    /\ UNCHANGED <<stores, ids, spent, failures, cfg>>

\* stats.update({user: user}, {$inc: {apiCallsUsed: 1}}, ...): lines 684-690.
\* An update that matches no document is no error.
IncrementAPIUpdate(p) ==
    /\ At(p, "incrementAPI", "update")
    /\ \E ok \in Outcomes :
        /\ Fail(ok)
        /\ IF ok THEN /\ stats' = StatsInc(ops[p].user, 0, 1)
                      /\ Resolve(p, TRUE)
           ELSE /\ UNCHANGED stats
                /\ Reject(p, "StoreError")
    /\ UNCHANGED <<buckets, files, gcs, ids, spent, cfg>>

IncrementAPI(p) ==
    \/ IncrementAPICall(p)
    \/ IncrementAPIUpdate(p)

(***************************************************************************)
(* createUserStats(user), lines 173-196, and removeUserStats(user), lines  *)
(* 203-219                                                                 *)
(***************************************************************************)
\* the _id the store gives the next usage document: later than every one
\* it holds
StatsId ==
    IF stats = {} THEN 1
    ELSE 1 + (CHOOSE n \in {s._id : s \in stats} :
                 \A s \in stats : s._id <= n)

CreateUserStatsCall(p) ==
    /\ Free(p)
    /\ cfg.accounts
    /\ StatsId <= MaxStats
    /\ \E user \in cfg.users :
        ops' = [ops EXCEPT ![p] = [op |-> "createUserStats", pc |-> "save",
                                   user |-> user]]
    /\ UNCHANGED <<stores, ids, spent, failures, cfg>>

\* stats.save(storage, ...): lines 188-194; the document has no _id, and the
\* store inserts it
CreateUserStatsSave(p) ==
    /\ At(p, "createUserStats", "save")
    /\ \E ok \in Outcomes :
        /\ Fail(ok)
        /\ IF ok THEN /\ stats' = stats \cup {NewStats(StatsId, ops[p].user)}
                      /\ Resolve(p, StatsId)
           ELSE /\ UNCHANGED stats
                /\ Reject(p, "StoreError")
    /\ UNCHANGED <<buckets, files, gcs, ids, spent, cfg>>

CreateUserStats(p) ==
    \/ CreateUserStatsCall(p)
    \/ CreateUserStatsSave(p)

\* the documents stats.remove({user: user}) removes: line 210
StatsOf(user) == {s \in stats : s.user = user}

RemoveUserStatsCall(p) ==
    /\ Free(p)
    /\ cfg.accounts
    /\ \E user \in cfg.users :
        ops' = [ops EXCEPT ![p] = [op |-> "removeUserStats", pc |-> "remove",
                                   user |-> user]]
    /\ UNCHANGED <<stores, ids, spent, failures, cfg>>

\* stats.remove(storage, ...): lines 211-217; resolves with the number of
\* documents removed
RemoveUserStatsRemove(p) ==
    /\ At(p, "removeUserStats", "remove")
    /\ \E ok \in Outcomes :
        /\ Fail(ok)
        /\ IF ok THEN /\ stats' = stats \ StatsOf(ops[p].user)
                      /\ Resolve(p, Cardinality(StatsOf(ops[p].user)))
           ELSE /\ UNCHANGED stats
                /\ Reject(p, "StoreError")
    /\ UNCHANGED <<buckets, files, gcs, ids, spent, cfg>>

RemoveUserStats(p) ==
    \/ RemoveUserStatsCall(p)
    \/ RemoveUserStatsRemove(p)

(***************************************************************************)
(* removeUser(user), lines 226-247, and removeBucketsByUser(user), lines   *)
(* 387-390                                                                 *)
(***************************************************************************)
\* the query of line 389
BucketsByUser(user) == {b \in buckets : b.user = user}

\* lines 235-236: stats.remove and bucketCollection.find are both issued
RemoveUserCall(p) ==
    /\ Free(p)
    /\ cfg.accounts
    /\ \E user \in cfg.users :
        ops' = [ops EXCEPT ![p] = [op |-> "removeUser", pc |-> "find",
                                   user |-> user, userStats |-> "remove",
                                   batch |-> "running"]]
    /\ UNCHANGED <<stores, ids, spent, failures, cfg>>

\* the callback of removeUserStats' stats.remove (lines 211-217) inside
\* removeUser
RemoveUserStatsDone(p) ==
    /\ ops[p].op = "removeUser"
    /\ ops[p].pc \notin Settled
    /\ ops[p].userStats = "remove"
    /\ \E ok \in Outcomes :
        /\ Fail(ok)
        /\ stats' = IF ok THEN stats \ StatsOf(ops[p].user) ELSE stats
        /\ LET userStats == IF ok THEN "ok" ELSE "fail"
           IN  IF ops[p].pc = "removeUserStats"
               THEN RemoveUserSettle(p, userStats, ops[p].batch)
               ELSE ops' = [ops EXCEPT ![p] = [@ EXCEPT !.userStats = userStats]]
    /\ UNCHANGED <<buckets, files, gcs, ids, spent, cfg>>

\* the callbacks of removeBuckets' find and toArray (lines 324-357) inside
\* removeUser
RemoveUserFind(p) ==
    /\ At(p, "removeUser", "find")
    /\ \E ok \in Outcomes :
        /\ Fail(ok)
        /\ LET found == BucketsByUser(ops[p].user)
           IN  IF ~ok THEN RemoveUserBatch(p, "fail")
               ELSE IF found = {} THEN RemoveUserBatch(p, "ok")
               ELSE ops' = [ops EXCEPT ![p] =
                      [op |-> "removeUser", pc |-> "deleting",
                       user |-> ops[p].user, userStats |-> ops[p].userStats,
                       batch |-> "running",
                       btasks |-> BucketTasks(found), ftasks |-> <<>>]]
    /\ UNCHANGED <<stores, ids, spent, cfg>>

RemoveUser(p) ==
    \/ RemoveUserCall(p)
    \/ RemoveUserStatsDone(p)
    \/ RemoveUserFind(p)
(***************************************************************************)
(* The system                                                              *)
(***************************************************************************)
\* The manager is constructed over the three collections; the accounts'
\* usage documents were made by createUserStats, once per user that has one.
Init ==
    /\ cfg \in Configs
    /\ stats = {NewStats(IF user = "u1" THEN 1 ELSE 2, user) :
                    user \in cfg.registered}
    /\ buckets = {}
    /\ files = {}
    /\ gcs = [buckets |-> {}, objects |-> {}]
    /\ ops = [p \in Procs |-> Idle]
    /\ nextBucket = 0
    /\ nextFile = 0
    /\ failures = 0
    /\ deleted = {}
    /\ spent = {}

Next ==
    \E p \in Procs :
        \/ CreateBucket(p)
        \/ UploadStream(p)
        \/ RemoveBucketsByName(p)
        \/ RemoveFilesById(p)
        \/ \E k \in FileKeys : DeleteFile(p, k)
        \/ DownloadFile(p)
        \/ WithinAPILimitCheck(p)
        \/ MakeFilePublic(p)
        \/ RenameFile(p)
        \/ IncrementAPI(p)
        \/ CreateUserStats(p)
        \/ RemoveUserStats(p)
        \/ RemoveUser(p)

Spec == Init /\ [][Next]_vars

(***************************************************************************)
(* Properties.  What an operation answers is read off the step that        *)
(* settles it: ops[p] is the operation in flight with its arguments and     *)
(* ops'[p] its outcome.                                                     *)
(***************************************************************************)
\* a run with one request at a time and no store, remote or stream failure
Undisturbed == cfg.faults = 0 /\ cfg.procs = {1}
\* p's operation `op` is in flight and this step settles it as `how`
Settles(p, op, how) ==
    /\ ops[p].op = op
    /\ ops[p].pc \notin Settled
    /\ ops'[p].pc = how
\* the documents of a collection, as an action reads them after the step
BucketIn(bs, id) == FindOne({b \in bs : b.identifier = id})
StatsIn(ss, user) == FindOne({s \in ss : s.user = user})
RECURSIVE SumSizes(_)
SumSizes(S) ==
    IF S = {} THEN 0
    ELSE LET f == CHOOSE f \in S : TRUE IN f.size + SumSizes(S \ {f})

\* C1: an upload that passes the quota check and whose stream completes has,
\* when it resolves, increased the memoryUsed of the bucket entry and of the
\* user's stats by exactly the number of bytes transferred, and apiCallsUsed
\* by exactly 1, relative to the documents read just before the commits
\* (stated for undisturbed runs).
UploadAddsTransferredBytes ==
    [][\A p \in Procs :
        (Undisturbed /\ Settles(p, "uploadStream", "resolved")) =>
            LET before == ops[p].before
                bucket == BucketIn(buckets', ops[p].bucketId)
                usage == StatsIn(stats', ops[p].user)
            IN  /\ bucket.memoryUsed = before.bucket.memoryUsed + ops[p].transferred
                /\ usage.memoryUsed = before.stats.memoryUsed + ops[p].transferred
                /\ usage.apiCallsUsed = before.stats.apiCallsUsed + 1]_vars

\* the answer of canUpload arrives for p's upload, and the read succeeded
UploadChecked(p) ==
    /\ At(p, "uploadStream", "canUpload")
    /\ ops'[p] # ops[p]
    /\ failures' = failures
    /\ StatsIn(stats, ops[p].user) # Null

\* C2: an upload with memoryUsed + byteCount >= memoryAllocated at check time
\* is rejected with the memory error, and no counter, no file entry and
\* nothing of the remote storage changes; no write stream is opened.
UploadOverMemoryRejected ==
    [][\A p \in Procs :
        LET usage == StatsIn(stats, ops[p].user)
        IN  (/\ UploadChecked(p)
             /\ usage.memoryUsed + ops[p].part.byteCount >= usage.memoryAllocated)
            => /\ ops'[p].pc = "rejected"
               /\ ops'[p].result = Err("MemoryError")
               /\ UNCHANGED stores]_vars
UploadOverMemoryWitness ==
    \E p \in Procs :
        /\ ops[p].op = "uploadStream"
        /\ ops[p].pc = "rejected"
        /\ ops[p].result = Err("MemoryError")

\* C3: canUpload answers from the stats document and the byte count alone:
\* the memory error iff memoryUsed + byteCount >= memoryAllocated; otherwise
\* the API error iff apiCallsUsed + 1 >= apiCallsAllocated; otherwise it
\* lets the upload through.  Whatever the answer, it writes nothing.
CanUploadGate ==
    [][\A p \in Procs :
        LET usage == StatsIn(stats, ops[p].user)
            memory == usage.memoryUsed + ops[p].part.byteCount >= usage.memoryAllocated
            api == usage.apiCallsUsed + 1 >= usage.apiCallsAllocated
        IN  UploadChecked(p) =>
                /\ UNCHANGED stores
                /\ IF memory
                   THEN ops'[p].pc = "rejected" /\ ops'[p].result = Err("MemoryError")
                   ELSE IF api
                   THEN ops'[p].pc = "rejected" /\ ops'[p].result = Err("ApiError")
                   ELSE ops'[p].pc = "streaming"]_vars
CanUploadGateWitness ==
    \E p \in Procs :
        /\ ops[p].op = "uploadStream"
        /\ ops[p].pc = "rejected"
        /\ ops[p].result = Err("ApiError")

\* C4: createBucket(name, user) finding a bucket entry of that user with that
\* name is rejected with the conflict error, having created no remote bucket,
\* saved no entry and charged no API call; finding none of that user, whoever
\* else uses the name, it goes on, and in a run without failures it is
\* rejected for no other reason.
CreateBucketConflict ==
    [][\A p \in Procs :
        LET taken == \E b \in buckets : b.user = ops[p].user /\ b.name = ops[p].name
        IN  /\ (/\ At(p, "createBucket", "getIBucket")
                /\ ops'[p] # ops[p]
                /\ failures' = failures)
               => IF taken
                  THEN /\ ops'[p].pc = "rejected"
                       /\ ops'[p].result = Err("Conflict")
                       /\ UNCHANGED stores
                  ELSE ops'[p].pc = "gcsCreateBucket"
            /\ (cfg.faults = 0 /\ Settles(p, "createBucket", "rejected"))
               => ops[p].pc = "getIBucket" /\ taken]_vars
CreateBucketConflictWitness ==
    \E p \in Procs :
        /\ ops[p].op = "createBucket"
        /\ ops[p].pc = "rejected"
        /\ ops[p].result = Err("Conflict")
        /\ nextBucket = 2
        /\ Cardinality(buckets) = 1

\* C5: no two bucket entries have the same user and the same name, in any
\* state, those reached by interleaved createBucket calls included.
BucketNameUniquePerUser ==
    \A a, b \in buckets : (a.user = b.user /\ a.name = b.name) => a = b

\* C6: deleting a bucket that holds N files, with no store or remote failure,
\* removes the N file entries of the bucket, the bucket entry and the remote
\* bucket, and decreases the memoryUsed of the owner's stats by exactly the
\* sum of the sizes of the N files (stated for undisturbed runs and a
\* removal of one bucket).
DeleteBucketReleasesItsFiles ==
    [][\A p \in Procs : \A b \in 1..MaxBuckets :
        (/\ Undisturbed
         /\ Settles(p, "removeBucketsByName", "resolved")
         /\ ops[p].pc = "deleting"
         /\ DOMAIN ops[p].btasks = {b}
         /\ ops'[p].result = Val({b}))
        => LET task == ops[p].btasks[b]
           IN  /\ \A f \in files' : f.bucketId # b
               /\ task.held \cap files' = {}
               /\ BucketIn(buckets', b) = Null
               /\ b \notin gcs'.buckets
               /\ StatsIn(stats', task.user).memoryUsed =
                      task.before.memoryUsed - SumSizes(task.held)]_vars

\* the answer of the bucket query arrives for a removeBucketsByName of p
\* whose buckets were all deleted before, none having been created since
DeletedAgain(p) ==
    /\ At(p, "removeBucketsByName", "find")
    /\ ops'[p] # ops[p]
    /\ failures' = failures
    /\ \A n \in ops[p].names :
        /\ [user |-> ops[p].user, name |-> n] \in deleted
        /\ \A b \in buckets : ~(b.user = ops[p].user /\ b.name = n)

\* C7 as it was claimed: deleting again a bucket that was completely deleted
\* fails with NotFound, and changes no store.
SecondDeleteNotFound ==
    [][\A p \in Procs :
        DeletedAgain(p) => /\ ops'[p].pc = "rejected"
                           /\ ops'[p].result = Err("NotFound")
                           /\ UNCHANGED stores]_vars

\* C7: deleting again a bucket that was completely deleted resolves with an
\* empty set of removed identifiers (it is not rejected), and changes no
\* store and nothing of the remote storage.
SecondDeleteResolvesEmpty ==
    [][\A p \in Procs :
        DeletedAgain(p) => /\ ops'[p].pc = "resolved"
                           /\ ops'[p].result = Val({})
                           /\ UNCHANGED stores]_vars
\* One bucket was ever created, for the one user and name of the
\* configuration, it was deleted, and the last request, a removal by that
\* name, removed nothing.
SecondDeleteWitness ==
    /\ cfg = CfgTransfers
    /\ nextBucket = 1
    /\ deleted # {}
    /\ buckets = {}
    /\ ops[1].op = "removeBucketsByName"
    /\ ops[1].pc = "resolved"
    /\ ops[1].result = Val({})

\* C8: removeFilesById and removeBucketsByName called with an empty list
\* resolve with an empty set of identifiers, and call neither the stores nor
\* the remote storage.
EmptyBatchResolvesEmpty ==
    [][\A p \in Procs :
        (/\ ops[p].pc \in Settled
         /\ ops'[p] # ops[p]
         /\ ops'[p].op \in BatchOps
         /\ ops'[p].pc # "find")
        => /\ ops'[p].pc = "resolved"
           /\ ops'[p].result = Val({})
           /\ UNCHANGED stores]_vars

\* the metadata of the object arrive for p's download, and it is answered
Downloaded(p) ==
    /\ At(p, "downloadFile", "getMetadata")
    /\ ops'[p].pc = "resolved"
\* the object p downloads is stored compressed
StoredCompressed(p) ==
    \E o \in gcs.objects :
        o.bucket = ops[p].bucketId /\ o.file = ops[p].fileID /\ o.encoded
\* the accept-encoding header of p's download names the encoding
Accepts(p, encoding) ==
    \E i \in 1..Len(ops[p].acceptEncoding) : ops[p].acceptEncoding[i] = encoding

\* C9: downloadFile answers by the decision table: compressed and gzip
\* accepted, the bytes as stored with content-encoding gzip; compressed and
\* deflate accepted, gunzip then deflate with content-encoding deflate;
\* compressed and neither, gunzip and no header; raw and gzip accepted, the
\* bytes as stored and no header; raw and deflate accepted, deflate with
\* content-encoding deflate; raw and neither, the bytes as stored and no
\* header.  gzip goes before deflate when both are accepted.
DownloadDecisionTable ==
    [][\A p \in Procs :
        Downloaded(p) =>
            ops'[p].result = Val(
                CASE StoredCompressed(p) /\ Accepts(p, "gzip") ->
                        [contentEncoding |-> "gzip", stages |-> <<>>]
                  [] StoredCompressed(p) /\ ~Accepts(p, "gzip") /\ Accepts(p, "deflate") ->
                        [contentEncoding |-> "deflate", stages |-> <<"gunzip", "deflate">>]
                  [] StoredCompressed(p) /\ ~Accepts(p, "gzip") /\ ~Accepts(p, "deflate") ->
                        [contentEncoding |-> "", stages |-> <<"gunzip">>]
                  [] ~StoredCompressed(p) /\ Accepts(p, "gzip") ->
                        [contentEncoding |-> "", stages |-> <<>>]
                  [] ~StoredCompressed(p) /\ ~Accepts(p, "gzip") /\ Accepts(p, "deflate") ->
                        [contentEncoding |-> "deflate", stages |-> <<"deflate">>]
                  [] ~StoredCompressed(p) /\ ~Accepts(p, "gzip") /\ ~Accepts(p, "deflate") ->
                        [contentEncoding |-> "", stages |-> <<>>])]_vars
DownloadDecisionTableWitness ==
    \E p \in Procs :
        /\ ops[p].op = "downloadFile"
        /\ ops[p].pc = "resolved"
        /\ ops[p].result.value.contentEncoding = "gzip"

\* C10 as it was claimed: a download pipes the object through at most one
\* transform stream.
DownloadAtMostOneStage ==
    \A p \in Procs :
        (ops[p].op = "downloadFile" /\ ops[p].pc = "resolved")
            => Len(ops[p].result.value.stages) <= 1

\* C10: a download pipes the object through at most two transform streams,
\* and through two exactly when the object is stored compressed and the
\* header accepts deflate and not gzip; otherwise through at most one.
DownloadStages ==
    [][\A p \in Procs :
        Downloaded(p) =>
            LET stages == Len(ops'[p].result.value.stages)
            IN  /\ stages <= 2
                /\ stages = 2 <=> (/\ StoredCompressed(p)
                                   /\ Accepts(p, "deflate")
                                   /\ ~Accepts(p, "gzip"))]_vars
DownloadStagesWitness ==
    \E p \in Procs :
        /\ ops[p].op = "downloadFile"
        /\ ops[p].pc = "resolved"
        /\ Len(ops[p].result.value.stages) = 2

\* C11: an object uploaded with a compressible content type is stored
\* compressed, and a download of it by a client accepting gzip delivers the
\* bytes as stored with content-encoding gzip, while a download by a client
\* accepting neither gzip nor deflate delivers the content that was uploaded
\* (stated for undisturbed runs).
UploadDownloadRoundTrip ==
    [][\A p \in Procs :
        (Undisturbed /\ Downloaded(p) /\ StoredCompressed(p)) =>
            LET obj == RemoteFile(ops[p].bucketId, ops[p].fileID)
            IN  /\ Accepts(p, "gzip") =>
                    /\ ops'[p].body = Stored(obj)
                    /\ ops'[p].result.value.contentEncoding = "gzip"
                /\ (~Accepts(p, "gzip") /\ ~Accepts(p, "deflate")) =>
                    ops'[p].body = Content(ops[p].fileID)]_vars

\* C12: renameFile charges the user's apiCallsUsed once, by 1, before it
\* updates the name, and the update of the name charges nothing: when the
\* update succeeds the file has the new name, and when it fails renameFile
\* is rejected, the stored name is unchanged and the charge stays.
RenameChargesOnce ==
    [][\A p \in Procs :
        LET usage == StatsIn(stats, ops[p].file.user)
        IN  /\ (/\ At(p, "renameFile", "incrementAPI")
                /\ ops'[p] # ops[p]
                /\ failures' = failures
                /\ usage # Null)
               => /\ ops'[p].pc = "update"
                  /\ StatsIn(stats', ops[p].file.user) =
                         [usage EXCEPT !.apiCallsUsed = @ + 1]
                  /\ files' = files
            /\ (At(p, "renameFile", "update") /\ ops'[p] # ops[p])
               => /\ stats' = stats
                  /\ IF failures' = failures
                     THEN /\ ops'[p].pc = "resolved"
                          /\ \A f \in files' :
                                f._id = ops[p].file._id => f.name = ops[p].name
                     ELSE /\ ops'[p].pc = "rejected"
                          /\ files' = files]_vars
\* a renameFile was rejected, its charge made and the name as it was
RenameChargesOnceWitness ==
    \E p \in Procs :
        /\ ops[p].op = "renameFile"
        /\ ops[p].pc = "rejected"
        /\ \E f \in files : f.name = PartFilename
        /\ \E s \in stats : s.apiCallsUsed = 3

UsageIsSumOfSizes ==
    (/\ cfg.faults = 0
     /\ cfg.procs = {1}
     /\ \A p \in Procs : ops[p].pc \in {"idle", "resolved", "rejected"})
    => /\ \A s \in stats :
            s.memoryUsed = SumSizes({f \in files : f.user = s.user})
       /\ \A b \in buckets :
            b.memoryUsed = SumSizes({f \in files : f.bucketId = b.identifier})

\* C15: the quota check reserves nothing.  Every upload that commits was
\* within quota on the document its check read, and its commit adds the
\* byte count to whatever the document holds by then: two uploads of one
\* user that both pass the check before either commits leave
\* memoryUsed >= memoryAllocated.
QuotaCheckIsAdvisory ==
    [][\A p \in Procs :
        (/\ At(p, "uploadStream", "statsInc")
         /\ ops'[p] # ops[p]
         /\ failures' = failures
         /\ StatsIn(stats, ops[p].user) # Null)
        => LET admitted == ops[p].storageStats
           IN  /\ admitted.memoryUsed + ops[p].part.byteCount
                      < admitted.memoryAllocated
               /\ StatsIn(stats', ops[p].user).memoryUsed =
                      StatsIn(stats, ops[p].user).memoryUsed
                          + ops[p].part.byteCount]_vars
\* no call failed, the two uploads in flight together have resolved, and a
\* user's memoryUsed has reached memoryAllocated
QuotaExceededByRace ==
    /\ cfg.faults = 0
    /\ cfg.procs = Procs
    /\ \A p \in Procs : ops[p].op = "uploadStream" /\ ops[p].pc = "resolved"
    /\ \E s \in stats : s.memoryUsed >= s.memoryAllocated

\* the operations that are not batch removals
Single ==
    {"createBucket", "uploadStream", "renameFile", "makeFilePublic",
     "makeFilePrivate"}

\* C16: in createBucket, uploadStream, renameFile, makeFilePublic and
\* makeFilePrivate, the failure of a store or remote call of the operation
\* makes the operation fail: the step in which a call of the operation
\* fails does not resolve it (stated for runs of one request at a time).
FailuresSurface ==
    [][\A p \in Procs :
        (/\ cfg.procs = {1}
         /\ ops[p].op \in Single
         /\ ops[p].pc \notin Settled
         /\ failures' = failures + 1)
        => ops'[p].pc # "resolved"]_vars

\* C17: when an upload asked to publish and making the remote object public
\* fails, the upload is rejected, the file entry registered exists, and the
\* file is private: its entry has isPublic false and the remote object is
\* not public.
FailedPublishLeavesPrivate ==
    [][\A p \in Procs :
        (At(p, "uploadStream", "makePublic") /\ ops'[p].pc # "makePublic")
        => \/ ops'[p].pc = "resolved"
           \/ /\ ops'[p].pc = "rejected"
              /\ \E f \in files' : f.identifier = ops[p].fileID
              /\ \A f \in files' :
                    f.identifier = ops[p].fileID => ~f.isPublic
              /\ \A o \in gcs'.objects :
                    (o.bucket = ops[p].bucketId /\ o.file = ops[p].fileID)
                        => ~o.public]_vars

\* C18: an error of the part or of the remote write stream while the upload
\* is streaming makes the upload delete the remote object before it fails.
StreamErrorCleansUp ==
    [][\A p \in Procs :
        (/\ At(p, "uploadStream", "streaming")
         /\ ops'[p] # ops[p]
         /\ failures' = failures + 1)
        => ops'[p].pc = "cleanup"]_vars

\* C19: when an upload aborts on a stream error and the deletion of the
\* remote object fails too, the upload is rejected with the stream's error,
\* not with the error of the deletion.
CleanupFailureReportsStreamError ==
    [][\A p \in Procs :
        (/\ At(p, "uploadStream", "cleanup")
         /\ ops'[p] # ops[p]
         /\ gcs' = gcs)
        => /\ ops'[p].pc = "rejected"
           /\ ops'[p].result = Err("UploadError")]_vars

\* C20: makeFilePublic and makeFilePrivate go on to charge the call and to
\* change the visibility only when apiCallsUsed + 1 < apiCallsAllocated holds
\* in the user's stats at the check; otherwise the call is rejected and
\* stats, files and the remote storage are unchanged.  withinAPILimit is
\* rejected with NotFound when the user has no stats.
VisibilityGuardedByApiLimit ==
    [][\A p \in Procs :
        /\ (/\ ops[p].op \in Visibility
            /\ ops[p].pc = "withinAPILimit"
            /\ ops'[p] # ops[p]
            /\ failures' = failures
            /\ StatsIn(stats, ops[p].file.user) # Null)
           => LET usage == StatsIn(stats, ops[p].file.user)
              IN  /\ UNCHANGED stores
                  /\ IF usage.apiCallsUsed + 1 < usage.apiCallsAllocated
                     THEN ops'[p].pc = "incrementAPI"
                     ELSE ops'[p].pc = "rejected"
        /\ (/\ At(p, "withinAPILimit", "findOne")
            /\ ops'[p] # ops[p]
            /\ failures' = failures
            /\ StatsIn(stats, ops[p].user) = Null)
           => /\ ops'[p].pc = "rejected"
              /\ ops'[p].result = Err("NotFound")]_vars

\* C21: incrementAPI for a user that has no usage document is rejected with
\* NotFound: it does not resolve, and it creates no document.
IncrementAPINotFound ==
    [][\A p \in Procs :
        (/\ At(p, "incrementAPI", "update")
         /\ ops'[p] # ops[p]
         /\ failures' = failures
         /\ StatsIn(stats, ops[p].user) = Null)
        => /\ ops'[p].pc = "rejected"
           /\ ops'[p].result = Err("NotFound")
           /\ stats' = stats]_vars

\* the documents of a collection that belong to another user than `user`
OfOthers(docs, user) == {d \in docs : d.user # user}

\* C22: no step of a removeFilesById(ids, user) or of a
\* removeBucketsByName(names, user) removes or changes a file entry, a
\* bucket entry or a usage document of another user.
BatchDeletesOwnerScoped ==
    [][\A p \in Procs :
        (/\ ops[p].op \in BatchOps
         /\ ops[p].pc \in {"find", "deleting"}
         /\ ops'[p] # ops[p]
         /\ ops[p].user # NoUser)
        => /\ OfOthers(files', ops[p].user) = OfOthers(files, ops[p].user)
           /\ OfOthers(buckets', ops[p].user) = OfOthers(buckets, ops[p].user)
           /\ OfOthers(stats', ops[p].user) = OfOthers(stats, ops[p].user)]_vars

\* C23: when the creation of the remote bucket fails, createBucket is
\* rejected with no bucket entry saved and no call charged; the entry is
\* saved only when the remote bucket exists, the call is charged only when
\* the entry is saved, and a createBucket that resolves has added exactly 1
\* to the apiCallsUsed of its user.
CreateBucketInOrder ==
    [][\A p \in Procs :
        (/\ ops[p].op = "createBucket"
         /\ ops[p].pc \notin Settled
         /\ ops'[p] # ops[p])
        => /\ (ops[p].pc = "gcsCreateBucket" /\ failures' # failures)
                 => /\ ops'[p].pc = "rejected"
                    /\ UNCHANGED stores
           /\ buckets' # buckets
                 => /\ ops[p].pc = "bucketSave"
                    /\ ops[p].bucketID \in gcs.buckets
                    /\ UNCHANGED <<stats, gcs>>
           /\ stats' # stats
                 => /\ ops[p].pc = "statsInc"
                    /\ UNCHANGED <<buckets, gcs>>
           /\ ops'[p].pc = "statsInc"
                 => BucketIn(buckets', ops[p].bucketID) # Null
           /\ (ops'[p].pc = "resolved" /\ StatsIn(stats, ops[p].user) # Null)
                 => StatsIn(stats', ops[p].user).apiCallsUsed
                       = StatsIn(stats, ops[p].user).apiCallsUsed + 1]_vars

\* C24: there is at most one usage document for a user.
OneStatsPerUser ==
    \A s, t \in stats : s.user = t.user => s = t

\* C25: when removeUser(user) resolves, no usage document, no bucket entry
\* and no file entry of the user is left.
RemoveUserCascades ==
    [][\A p \in Procs :
        Settles(p, "removeUser", "resolved")
        => /\ \A s \in stats' : s.user # ops[p].user
           /\ \A b \in buckets' : b.user # ops[p].user
           /\ \A f \in files' : f.user # ops[p].user]_vars

\* the deleteFile k of p's removal takes a step
FileStep(p, k) ==
    /\ Deleting(p)
    /\ k \in DOMAIN ops[p].ftasks
    /\ ops[p].ftasks[k].pc \notin TaskEnded
    /\ ops'[p] # ops[p]
    /\ IF "ftasks" \in DOMAIN ops'[p]
       THEN ops'[p].ftasks[k].pc # ops[p].ftasks[k].pc
       ELSE k[1] = TopLevel
\* where that deleteFile is after the step; a removeFilesById that resolves
\* lists the files whose deleteFile resolved
FileAfter(p, k) ==
    IF "ftasks" \in DOMAIN ops'[p] THEN ops'[p].ftasks[k].pc
    ELSE IF ops'[p].pc = "resolved" /\ k[2] \in ops'[p].result.value
    THEN "ok" ELSE "fail"

\* C26: deleteFile deletes the remote object, then subtracts the file's size
\* from the memoryUsed of the bucket entry, then removes the file entry,
\* then subtracts the size from the memoryUsed of the usage document and adds
\* 1 to its apiCallsUsed.  A step that fails rejects the deleteFile and
\* changes nothing: what the steps before it did stays, and a deleteFile
\* that has ended takes no further step.
DeleteFileInOrder ==
    [][\A p \in Procs, k \in FileKeys :
        /\ FileStep(p, k) =>
            LET task == ops[p].ftasks[k]
                after == FileAfter(p, k)
                failed == failures' # failures
            IN  CASE task.pc = "getIBucket" ->
                       /\ UNCHANGED stores
                       /\ after \in {"fileDelete", "fail"}
                  [] task.pc = "fileDelete" ->
                       /\ UNCHANGED <<stats, buckets, files>>
                       /\ IF after = "bucketDec"
                          THEN /\ RemoteFile(task.bucketId, k[2]) # {}
                               /\ gcs'.objects = gcs.objects
                                     \ RemoteFile(task.bucketId, k[2])
                               /\ gcs'.buckets = gcs.buckets
                          ELSE after = "fail" /\ gcs' = gcs
                  [] task.pc = "bucketDec" ->
                       /\ UNCHANGED <<stats, files, gcs>>
                       /\ IF failed THEN after = "fail" /\ buckets' = buckets
                          ELSE /\ after = "fileRemove"
                               /\ \A b \in buckets :
                                    IF b.identifier = task.bucketId
                                    THEN BucketIn(buckets', b.identifier)
                                           = [b EXCEPT !.memoryUsed = @ - task.size]
                                    ELSE b \in buckets'
                  [] task.pc = "fileRemove" ->
                       /\ UNCHANGED <<stats, buckets, gcs>>
                       /\ IF failed THEN after = "fail" /\ files' = files
                          ELSE /\ after = "statsDec"
                               /\ files' = {f \in files : f._id # k[2]}
                  [] task.pc = "statsDec" ->
                       /\ UNCHANGED <<buckets, files, gcs>>
                       /\ IF failed THEN after = "fail" /\ stats' = stats
                          ELSE /\ after = "ok"
                               /\ LET usage == StatsIn(stats, task.owner)
                                  IN  usage # Null =>
                                        StatsIn(stats', task.owner) =
                                          [usage EXCEPT
                                             !.memoryUsed = @ - task.size,
                                             !.apiCallsUsed = @ + 1]
        /\ (/\ Deleting(p)
            /\ k \in DOMAIN ops[p].ftasks
            /\ ops[p].ftasks[k].pc \in TaskEnded
            /\ "ftasks" \in DOMAIN ops'[p])
           => ops'[p].ftasks[k] = ops[p].ftasks[k]]_vars
\* a deleteFile was rejected by a store failure after the remote object was
\* deleted: the object is gone, the file entry is still there
DeleteFileInOrderWitness ==
    \E p \in Procs, k \in FileKeys :
        /\ Deleting(p)
        /\ k \in DOMAIN ops[p].ftasks
        /\ ops[p].ftasks[k].pc = "fail"
        /\ ops[p].ftasks[k].error = "StoreError"
        /\ \E f \in files : f._id = k[2]
        /\ RemoteFile(ops[p].ftasks[k].bucketId, k[2]) = {}

\* C27: a deleteFile whose lookup of the bucket file.bucketId finds no bucket
\* entry is rejected with the not-found error and changes nothing in the
\* collections and in the remote storage.
DeleteFileBucketNotFound ==
    [][\A p \in Procs, k \in FileKeys :
        (/\ FileStep(p, k)
         /\ ops[p].ftasks[k].pc = "getIBucket"
         /\ failures' = failures
         /\ BucketIn(buckets, ops[p].ftasks[k].bucketId) = Null)
        => /\ FileAfter(p, k) = "fail"
           /\ "ftasks" \in DOMAIN ops'[p]
                 => ops'[p].ftasks[k].error = "NotFound"
           /\ UNCHANGED stores]_vars
DeleteFileBucketNotFoundWitness ==
    \E p \in Procs, k \in FileKeys :
        /\ Deleting(p)
        /\ k \in DOMAIN ops[p].ftasks
        /\ ops[p].ftasks[k].pc = "fail"
        /\ ops[p].ftasks[k].error = "NotFound"
        /\ \E f \in files : f._id = k[2]
        /\ BucketIn(buckets, ops[p].ftasks[k].bucketId) = Null

\* C28: when the deleteFile of a file of the bucket was rejected, deleteBucket
\* does not delete the remote bucket, does not remove the bucket entry, and
\* does not resolve.
DeleteBucketAfterFiles ==
    [][\A p \in Procs, b \in 1..MaxBuckets :
        (/\ Deleting(p)
         /\ b \in DOMAIN ops[p].btasks
         /\ ops'[p] # ops[p]
         /\ \E k \in DOMAIN ops[p].ftasks :
               k[1] = b /\ ops[p].ftasks[k].pc = "fail")
        => /\ b \in gcs.buckets => b \in gcs'.buckets
           /\ BucketIn(buckets, b) # Null => BucketIn(buckets', b) # Null
           /\ "btasks" \in DOMAIN ops'[p] => ops'[p].btasks[b].pc # "ok"]_vars

\* the states an upload may move to from `pc`
UploadNext(pc, makePublic) ==
    CASE pc = "canUpload" -> {"streaming", "rejected", "hung"}
      [] pc = "streaming" -> {"bucketInc", "cleanup", "rejected", "hung"}
      [] pc = "cleanup" -> {"rejected"}
      [] pc = "bucketInc" -> {"statsInc"}
      [] pc = "statsInc" -> {"registerFile"}
      [] pc = "registerFile" ->
            IF makePublic THEN {"makePublic", "rejected"}
            ELSE {"resolved", "rejected"}
      [] pc = "makePublic" -> {"resolved", "rejected"}

\* C29: an upload moves from checking to streaming, to its commits and the
\* registration of the file entry, to publishing when asked to, and resolves,
\* or it is rejected on the way.  The commits start only when the write
\* stream has completed and the object is written; the counter of the bucket,
\* the counters of the user and the file entry change only in their own
\* steps, and no step of checking, streaming or cleaning up changes a counter
\* or a file entry.  The outcome of an upload that has settled is never
\* changed: its process only takes a new request.
UploadStateMachine ==
    [][\A p \in Procs :
        /\ (/\ ops[p].op = "uploadStream"
            /\ ops[p].pc \notin Settled
            /\ ops'[p] # ops[p])
           => /\ ops'[p].op = "uploadStream"
              /\ ops'[p].pc \in UploadNext(ops[p].pc, ops[p].makePublic)
              /\ ops[p].pc \in {"canUpload", "streaming", "cleanup"}
                    => UNCHANGED <<stats, buckets, files>>
              /\ ops'[p].pc = "bucketInc"
                    => \E o \in gcs'.objects :
                          o.bucket = ops[p].bucketId /\ o.file = ops[p].fileID
              /\ buckets' # buckets => ops[p].pc = "bucketInc"
              /\ stats' # stats => ops[p].pc = "statsInc"
              /\ files' # files => ops[p].pc = "registerFile"
        /\ (/\ ops[p].op = "uploadStream"
            /\ ops[p].pc \in {"resolved", "rejected"}
            /\ ops'[p] # ops[p])
           => \/ ops'[p].op # "uploadStream"
              \/ ops'[p].pc = "canUpload"]_vars
\* an upload went through every state: it registered its file and published
\* it
UploadStateMachineWitness ==
    \E p \in Procs :
        /\ ops[p].op = "uploadStream"
        /\ ops[p].pc = "resolved"
        /\ \E f \in files :
              /\ f.identifier = ops[p].result.value
              /\ f.isPublic
              /\ \E o \in gcs.objects : o.file = f.identifier /\ o.public

DeleteBucketRetryable ==
    [][\A p \in Procs :
        (cfg.procs = {1} /\ DeletedAgain(p))
        => /\ ops'[p].pc = "resolved"
           /\ \A f \in files' :
                 f.bucketName \in ops[p].names
                    => BucketIn(buckets', f.bucketId) # Null]_vars

\* C32: renameFile, makeFilePublic, makeFilePrivate and uploadStream settle:
\* none of them is left with a promise that no callback will settle.
CallsSettle ==
    \A p \in Procs :
        ops[p].op \in {"renameFile", "makeFilePublic", "makeFilePrivate",
                       "uploadStream"}
            => ops[p].pc # "hung"

\* C33: a transfer gets out of the transform stages it is piped through what
\* stages of its own would give it, whatever transfers used the stages of the
\* manager before: a download delivers the bytes of its object transformed by
\* its stages, and an upload piped through the zipper completes.
TransformStagesReusable ==
    [][\A p \in Procs :
        /\ (At(p, "downloadFile", "getMetadata") /\ ops'[p].pc = "resolved")
           => LET obj == RemoteFile(ops[p].bucketId, ops[p].fileID)
              IN  ops'[p].body =
                     Pipe(ops'[p].result.value.stages, Stored(obj), {}).body
        /\ (At(p, "uploadStream", "streaming") /\ ops'[p] # ops[p])
           => ops'[p].pc # "hung"]_vars

\* C34: the memoryUsed of a usage document and of a bucket entry is never
\* negative.
CountersNonNegative ==
    /\ \A s \in stats : s.memoryUsed >= 0
    /\ \A b \in buckets : b.memoryUsed >= 0

\* C35: when no operation is in flight, every file entry has the identifier
\* of a stored bucket entry as its bucketId.
FilesReferenceBuckets ==
    (\A p \in Procs : ops[p].pc \in Settled)
    => \A f \in files : BucketIn(buckets, f.bucketId) # Null

\* C36: the deletion of bucket B changes no file entry whose bucketId is not
\* B's identifier, none of the remote objects of other buckets, and no other
\* bucket entry: every step of a deleteFile started by deleteBucket(B) leaves
\* them as they are.
DeleteBucketOnlyItsFiles ==
    [][\A p \in Procs, k \in FileKeys :
        (FileStep(p, k) /\ k[1] # TopLevel)
        => /\ {f \in files' : f.bucketId # k[1]}
                 = {f \in files : f.bucketId # k[1]}
           /\ {o \in gcs'.objects : o.bucket # k[1]}
                 = {o \in gcs.objects : o.bucket # k[1]}
           /\ {b \in buckets' : b.identifier # k[1]}
                 = {b \in buckets : b.identifier # k[1]}]_vars

\* C37: the usage document a deleteFile subtracts the file's size from is the
\* document of the user the upload added it to, the user of the file entry.
AccountingSymmetric ==
    [][\A p \in Procs, k \in FileKeys :
        (/\ FileStep(p, k)
         /\ ops[p].ftasks[k].pc = "getIBucket"
         /\ FileAfter(p, k) = "fileDelete")
        => \A f \in files :
              f._id = k[2] => ops'[p].ftasks[k].owner = f.user]_vars

\* C38: in runs of one request at a time, the memoryUsed of every usage
\* document stays below its memoryAllocated, whatever uploads and deletions
\* are made.
SequentialUploadsWithinQuota ==
    cfg.procs = {1}
        => \A s \in stats : s.memoryUsed < s.memoryAllocated
\* two uploads were accepted one after the other and left the user one byte
\* below the allocation
SequentialUploadsWitness ==
    /\ cfg.procs = {1}
    /\ \E s \in stats :
          /\ s.memoryUsed = s.memoryAllocated - 1
          /\ Cardinality({f \in files : f.user = s.user}) = 2
=============================================================================
